---- MODULE Spec2Model ----
(***************************************************************************)
(* Model of repo-scripts/prune-dts/extract-public-api.ts: generateApi,     *)
(* the scratch configuration it writes into the process-wide tmpDir, the   *)
(* two Extractor.invoke calls and the three post-processing stages it      *)
(* runs on publicDtsPath in between.                                       *)
(*                                                                         *)
(* pruneDts, addBlankLines and removeUnusedImports are imported from       *)
(* ./prune-dts; the three functions are modelled from their contracts in   *)
(* sections 4.2-4.4 of the specification.                                  *)
(* Extractor (api-extractor-me) is an external library, modelled by its    *)
(* contract: it reads the entry point, writes the rollup files iff         *)
(* dtsRollup.enabled and the report iff apiReport.enabled.                 *)
(***************************************************************************)
EXTENDS Integers, Sequences, FiniteSets, TLC

\* Longest declaration file (in lines) the extraction tool emits in SpecText.
MaxLen == 3

(***************************************************************************)
(* Declaration-file text: a sequence of lines.  A line is an import        *)
(* statement, a blank line, or a declaration that is exported, exported    *)
(* with the internal marker, or not exported.                              *)
(***************************************************************************)
Line(k, b, r) == [kind |-> k, binds |-> b, refs |-> r]
BlankLine == Line("blank", {}, {})
ImportLines == {Line("import", b, {}) : b \in {{"X"}, {"X", "Y"}}}
ExportedLines ==
  {Line(k, {"A"}, r) : k \in {"export", "internal"}, r \in {{}, {"B"}, {"X"}}}
LocalLines ==
  {Line(k, {"B"}, r) : k \in {"decl", "internal"}, r \in {{}, {"A"}, {"X"}}}
Lines == ImportLines \cup {BlankLine} \cup ExportedLines \cup LocalLines

\* Every text of at most MaxLen lines.
Texts == UNION {[1..n -> Lines] : n \in 0..MaxLen}

\* The rollups the extraction tool emits in the two-run specification.
SampleRollups ==
  { << Line("import", {"X", "Y"}, {}), Line("export", {"A"}, {"X"}),
       Line("decl", {"B"}, {}) >>,
    << Line("export", {"A"}, {"B"}), Line("decl", {"B"}, {"A"}) >> }

IsStatement(l) == l.kind # "blank"
IsImport(l) == l.kind = "import"
IsDeclaration(l) == l.kind \in {"export", "internal", "decl"}

\* The subsequence of t at the indices in keep, in the original order.
RECURSIVE Restrict(_, _, _)
Restrict(t, keep, i) ==
  IF i > Len(t) THEN << >>
  ELSE IF i \in keep THEN << t[i] >> \o Restrict(t, keep, i + 1)
       ELSE Restrict(t, keep, i + 1)

RECURSIVE SetToSeq(_)
SetToSeq(S) ==
  IF S = {} THEN << >>
  ELSE LET x == CHOOSE y \in S : \A z \in S : y <= z
       IN  << x >> \o SetToSeq(S \ {x})

(***************************************************************************)
(* Visibility Pruner (specification 4.2, design note 9): breadth-first     *)
(* closure over the reference graph from the root statements, with a set   *)
(* of already-queued statements.  Blank lines are not statements and stay. *)
(***************************************************************************)
RootSet(t) == {i \in DOMAIN t : t[i].kind = "export"}

\* The statements that bind an identifier statement s references.
Binders(t, s) ==
  {j \in DOMAIN t : IsStatement(t[j]) /\ t[j].binds \cap t[s].refs # {}}

RECURSIVE Closure(_, _, _)
Closure(t, queue, queued) ==
  IF queue = << >> THEN queued
  ELSE LET s == Head(queue)
           new == Binders(t, s) \ queued
       IN  Closure(t, Tail(queue) \o SetToSeq(new), queued \cup new)

Kept(t) == Closure(t, SetToSeq(RootSet(t)), RootSet(t))

pruneDts(t) ==
  Restrict(t, Kept(t) \cup {i \in DOMAIN t : ~IsStatement(t[i])}, 1)

(***************************************************************************)
(* Formatter (specification 4.4): exactly one blank line between the       *)
(* contiguous leading block of imports and the first following statement.  *)
(***************************************************************************)
\* Length of the longest prefix of t from index i on whose lines satisfy kind k.
RECURSIVE RunLength(_, _, _)
RunLength(t, i, k) ==
  IF i <= Len(t) /\ t[i].kind = k THEN 1 + RunLength(t, i + 1, k) ELSE 0

LeadingImports(t) == RunLength(t, 1, "import")

addBlankLines(t) ==
  LET k == LeadingImports(t)
      j == RunLength(t, k + 1, "blank")
  IN  IF k = 0 \/ k + j = Len(t) THEN t
      ELSE SubSeq(t, 1, k) \o << BlankLine >> \o SubSeq(t, k + j + 1, Len(t))

(***************************************************************************)
(* Import Normalizer (specification 4.3): every import keeps the names a   *)
(* surviving non-import statement references; an import left with no name  *)
(* is removed.                                                             *)
(***************************************************************************)
Referenced(t) == UNION {t[i].refs : i \in {j \in DOMAIN t : IsDeclaration(t[j])}}

RECURSIVE Normalize(_, _, _)
Normalize(t, used, i) ==
  IF i > Len(t) THEN << >>
  ELSE IF ~IsImport(t[i]) THEN << t[i] >> \o Normalize(t, used, i + 1)
       ELSE IF t[i].binds \cap used = {} THEN Normalize(t, used, i + 1)
            ELSE << Line("import", t[i].binds \cap used, {}) >>
                   \o Normalize(t, used, i + 1)

removeUnusedImports(t) == Normalize(t, Referenced(t), 1)


(***************************************************************************)
(* The program.                                                            *)
(***************************************************************************)
VARIABLES
  fs,               \* the declaration files: path -> [present, text]
  tmpDir,           \* the scratch folder of line 39, shared by every run
  reportFolder,     \* the report files written under common/api-review
  running,          \* the generateApi call that holds the JS thread, or "none"
  pc,               \* per call: the statement of generateApi it is at
  args,             \* per call: the arguments of generateApi
  extractorConfig,  \* per call: the local variable of that name
  inflight,         \* per call: the async stages called and not yet settled
  promise,          \* per call: the state of the promise generateApi returned
  error,            \* per call: the step whose failure was raised, or ""
  invocations,      \* per call: what each Extractor.invoke was given and read
  events            \* per call: the steps begun and ended, in order

vars ==
  << fs, tmpDir, reportFolder, running, pc, args, extractorConfig, inflight,
     promise, error, invocations, events >>

\* Two calls of generateApi in one process, for two packages.
Runs == {"r1", "r2"}
PackageNameOf(r) == IF r = "r1" THEN "app" ELSE "database"
PackageRootOf(r) == IF r = "r1" THEN "packages/app" ELSE "packages/database"

Slots == {"dist/src/index.d.ts", "dist/private.d.ts", "dist/internal.d.ts",
          "dist/public.d.ts"}
Paths == {<< PackageRootOf(r), s >> : r \in Runs, s \in Slots}
NoPath == << "", "" >>

File(t) == [present |-> TRUE, text |-> t]
Absent == [present |-> FALSE, text |-> << >>]

\* The arguments of lines 221-228: four separate files, or the public file
\* written over the rollup.
DistinctArgs(r) ==
  [packageName |-> PackageNameOf(r), packageRoot |-> PackageRootOf(r),
   typescriptDtsPath |-> << PackageRootOf(r), "dist/src/index.d.ts" >>,
   rollupDtsPath |-> << PackageRootOf(r), "dist/private.d.ts" >>,
   untrimmedRollupDtsPath |-> << PackageRootOf(r), "dist/internal.d.ts" >>,
   publicDtsPath |-> << PackageRootOf(r), "dist/public.d.ts" >>]
InPlaceArgs(r) ==
  [DistinctArgs(r) EXCEPT !.publicDtsPath = DistinctArgs(r).rollupDtsPath]
ArgChoices(r) == {DistinctArgs(r), InPlaceArgs(r)}
NoArgs ==
  [packageName |-> "", packageRoot |-> "", typescriptDtsPath |-> NoPath,
   rollupDtsPath |-> NoPath, untrimmedRollupDtsPath |-> NoPath,
   publicDtsPath |-> NoPath]

PairwiseDistinct(a) ==
  Cardinality({a.typescriptDtsPath, a.rollupDtsPath, a.untrimmedRollupDtsPath,
               a.publicDtsPath}) = 4

\* ForgottenExportLogLevel with a fault: the error level in both invocations.
ForgottenExportAlwaysError(apiReportEnabled) == "error"

ForgottenExportLogLevel(apiReportEnabled) ==
  IF apiReportEnabled THEN "error" ELSE "none"

\* The object of lines 75-109.
ApiExtractorJson(packageName, entry, rollup, untrimmed, rollupOn, reportOn) ==
  [mainEntryPointFilePath |-> entry,
   dtsRollup |-> [enabled |-> rollupOn,
                  publicTrimmedFilePath |-> rollup,
                  untrimmedFilePath |-> untrimmed],
   tsdocMetadata |-> [enabled |-> FALSE],
   apiReport |-> [enabled |-> reportOn, reportFileName |-> packageName],
   messages |-> [aeMissingReleaseTag |-> "none",
                 aeUnresolvedLink |-> "none",
                 aeForgottenExport |-> ForgottenExportLogLevel(reportOn),
                 tsdocUndefinedTag |-> "none"]]
NoJson == ApiExtractorJson("", NoPath, NoPath, NoPath, FALSE, FALSE)
NoExtractorConfig == [json |-> NoJson, packageJson |-> ""]

\* FirstInvocation with a fault: the report enabled in the first invocation too.
FirstInvocationWithReport(a) ==
  ApiExtractorJson(a.packageName, a.typescriptDtsPath, a.rollupDtsPath,
                   a.untrimmedRollupDtsPath, TRUE, TRUE)

\* Lines 145-152.
FirstInvocation(a) ==
  ApiExtractorJson(a.packageName, a.typescriptDtsPath, a.rollupDtsPath,
                   a.untrimmedRollupDtsPath, TRUE, FALSE)

\* Lines 165-172.
SecondInvocation(a) ==
  ApiExtractorJson(a.packageName, a.publicDtsPath, a.rollupDtsPath,
                   a.untrimmedRollupDtsPath, FALSE, TRUE)

\* PruneDtsInput with a fault: the compiler's file pruned instead of the rollup.
PruneDtsInputTypescript(a) == a.typescriptDtsPath
\* PruneDtsOutput with a fault: the pruned text written over the rollup.
PruneDtsOutputRollup(a) == a.rollupDtsPath

\* Line 158: pruneDts(rollupDtsPath, publicDtsPath).
PruneDtsInput(a) == a.rollupDtsPath
PruneDtsOutput(a) == a.publicDtsPath

\* Following with a fault: the import normalizer called before the formatter.
FollowingImportsFirst(step) ==
  CASE step = "pruneDts" -> "removeUnusedImports"
    [] step = "removeUnusedImports" -> "addBlankLines"
    [] step = "addBlankLines" -> "loadApiExtractorConfig2"
\* Following with a fault: the formatter left out.
FollowingNoBlankLines(step) ==
  CASE step = "pruneDts" -> "removeUnusedImports"
    [] step = "addBlankLines" -> "removeUnusedImports"
    [] step = "removeUnusedImports" -> "loadApiExtractorConfig2"

\* The statement that follows each stage (lines 158-165).
Following(step) ==
  CASE step = "pruneDts" -> "addBlankLines"
    [] step = "addBlankLines" -> "removeUnusedImports"
    [] step = "removeUnusedImports" -> "loadApiExtractorConfig2"

\* AfterCall with a fault: the promise of the stage is not awaited.
AfterCallNoAwait(awaitLabel, nextLabel) == nextLabel

\* Lines 160 and 162: generateApi awaits the stage it called.
AfterCall(awaitLabel, nextLabel) == awaitLabel

\* OnFailure with a fault: the failure is caught and the run goes on.
OnFailureContinue(nextLabel) == nextLabel

\* Lines 133-175 hold no try/catch: a throw or a rejected await rejects the
\* promise of the async function.
OnFailure(nextLabel) == "rejected"

AwaitLabels == {"awaitAddBlankLines", "awaitRemoveUnusedImports"}

Init ==
  /\ fs = [p \in Paths |->
             IF p[2] = "dist/src/index.d.ts" THEN File(<< >>) ELSE Absent]
  /\ tmpDir = [tsconfig |-> "", packageJson |-> "", apiExtractorJson |-> NoJson]
  /\ reportFolder = {}
  /\ running = "none"
  /\ pc = [r \in Runs |-> "idle"]
  /\ args = [r \in Runs |-> NoArgs]
  /\ extractorConfig = [r \in Runs |-> NoExtractorConfig]
  /\ inflight = [r \in Runs |-> {}]
  /\ promise = [r \in Runs |-> "none"]
  /\ error = [r \in Runs |-> ""]
  /\ invocations = [r \in Runs |-> << >>]
  /\ events = [r \in Runs |-> << >>]

Begun(r, step) == [events EXCEPT ![r] = Append(@, << "start", step >>)]
Ended(r, step) == [events EXCEPT ![r] = Append(@, << "end", step >>)]
Done(r, step) ==
  [events EXCEPT ![r] = @ \o << << "start", step >>, << "end", step >> >>]

\* A synchronous statement of run r completes and control moves to next.
Goto(r, next) ==
  /\ pc' = [pc EXCEPT ![r] = next]
  /\ UNCHANGED << running, promise, error >>

\* A statement of run r, which holds the thread, throws.
Throws(r, step, next) ==
  /\ pc' = [pc EXCEPT ![r] = OnFailure(next)]
  /\ error' = [error EXCEPT ![r] = step]
  /\ promise' = [promise EXCEPT
                   ![r] = IF OnFailure(next) = "rejected" THEN "rejected" ELSE @]
  /\ running' = IF OnFailure(next) = "rejected" THEN "none" ELSE r

\* Lines 133-141: generateApi is called.
Call(r) ==
  /\ pc[r] = "idle"
  /\ running = "none"
  /\ \E a \in ArgChoices(r) : args' = [args EXCEPT ![r] = a]
  /\ pc' = [pc EXCEPT ![r] = "writeTypescriptConfig"]
  /\ running' = r
  /\ promise' = [promise EXCEPT ![r] = "pending"]
  /\ UNCHANGED << fs, tmpDir, reportFolder, extractorConfig, inflight, error,
                  invocations, events >>

\* Lines 41-54, called at line 142.
WriteTypescriptConfig(r) ==
  /\ pc[r] = "writeTypescriptConfig"
  /\ running = r
  /\ tmpDir' = [tmpDir EXCEPT !.tsconfig = args[r].packageRoot]
  /\ Goto(r, "writePackageJson")
  /\ UNCHANGED << fs, reportFolder, args, extractorConfig, inflight,
                  invocations, events >>

\* Lines 56-64, called at line 143.
WritePackageJson(r) ==
  /\ pc[r] = "writePackageJson"
  /\ running = r
  /\ tmpDir' = [tmpDir EXCEPT !.packageJson = args[r].packageName]
  /\ Goto(r, "loadApiExtractorConfig1")
  /\ UNCHANGED << fs, reportFolder, args, extractorConfig, inflight,
                  invocations, events >>

\* Lines 66-115: the configuration is written to tmpDir and loaded from it;
\* loadFileAndPrepare resolves the package.json beside it.
loadApiExtractorConfig(r, json) ==
  /\ tmpDir' = [tmpDir EXCEPT !.apiExtractorJson = json]
  /\ extractorConfig' =
       [extractorConfig EXCEPT
          ![r] = [json |-> json, packageJson |-> tmpDir.packageJson]]

\* Lines 145-152.
LoadApiExtractorConfig1(r) ==
  /\ pc[r] = "loadApiExtractorConfig1"
  /\ running = r
  /\ loadApiExtractorConfig(r, FirstInvocation(args[r]))
  /\ Goto(r, "invoke1")
  /\ UNCHANGED << fs, reportFolder, args, inflight, invocations, events >>

\* What Extractor.invoke was given and what it read from tmpDir.
Invocation(r, t) ==
  [config |-> extractorConfig[r].json,
   packageJson |-> extractorConfig[r].packageJson,
   tsconfig |-> tmpDir.tsconfig,
   rollup |-> t]

\* Extractor.invoke with rollup text t: the rollup files are written iff
\* dtsRollup.enabled, the report iff apiReport.enabled.
Invoke(r, t) ==
  LET json == extractorConfig[r].json
  IN  /\ fs[json.mainEntryPointFilePath].present
      /\ fs' = IF json.dtsRollup.enabled
               THEN [p \in Paths |->
                       IF p \in {json.dtsRollup.publicTrimmedFilePath,
                                 json.dtsRollup.untrimmedFilePath}
                       THEN File(t) ELSE fs[p]]
               ELSE fs
      /\ reportFolder' = IF json.apiReport.enabled
                         THEN reportFolder \cup {json.apiReport.reportFileName}
                         ELSE reportFolder
      /\ invocations' = [invocations EXCEPT ![r] = Append(@, Invocation(r, t))]

\* Lines 153-157: the first invocation, which emits the rollup.
ExtractorInvoke1(r, texts) ==
  /\ pc[r] = "invoke1"
  /\ running = r
  /\ \/ /\ \E t \in texts : Invoke(r, t)
        /\ events' = Done(r, "invoke1")
        /\ Goto(r, "pruneDts")
     \/ /\ events' = Begun(r, "invoke1")
        /\ Throws(r, "invoke1", "pruneDts")
        /\ UNCHANGED << fs, reportFolder, invocations >>
  /\ UNCHANGED << tmpDir, args, extractorConfig, inflight >>

\* Lines 158-159: the rollup is pruned into the public file.
PruneDts(r) ==
  /\ pc[r] = "pruneDts"
  /\ running = r
  /\ \/ /\ fs[PruneDtsInput(args[r])].present
        /\ fs' = [fs EXCEPT ![PruneDtsOutput(args[r])] =
                    File(pruneDts(fs[PruneDtsInput(args[r])].text))]
        /\ events' = Done(r, "pruneDts")
        /\ Goto(r, Following("pruneDts"))
     \/ /\ events' = Begun(r, "pruneDts")
        /\ Throws(r, "pruneDts", Following("pruneDts"))
        /\ UNCHANGED fs
  /\ UNCHANGED << tmpDir, reportFolder, args, extractorConfig, inflight,
                  invocations >>

\* An async stage is called and, awaited, the run gives up the thread.
CallStage(r, stage, awaitLabel, next) ==
  /\ running = r
  /\ inflight' = [inflight EXCEPT ![r] = @ \cup {stage}]
  /\ events' = Begun(r, stage)
  /\ pc' = [pc EXCEPT ![r] = AfterCall(awaitLabel, next)]
  /\ running' = IF AfterCall(awaitLabel, next) \in AwaitLabels THEN "none" ELSE r
  /\ UNCHANGED << fs, tmpDir, reportFolder, args, extractorConfig, promise,
                  error, invocations >>

\* The text an async stage leaves in the file it was given.
Rewritten(stage, t) ==
  IF stage = "addBlankLines" THEN addBlankLines(t) ELSE removeUnusedImports(t)

\* An async stage settles while no run holds the thread: it has rewritten
\* the public file in place and the awaiting run resumes, or it rejects.
StageSettles(r, stage, awaitLabel, next) ==
  /\ stage \in inflight[r]
  /\ running = "none"
  /\ inflight' = [inflight EXCEPT ![r] = @ \ {stage}]
  /\ \/ /\ fs[args[r].publicDtsPath].present
        /\ fs' = [fs EXCEPT ![args[r].publicDtsPath] = File(Rewritten(stage, @.text))]
        /\ events' = Ended(r, stage)
        /\ IF pc[r] = awaitLabel
           THEN /\ pc' = [pc EXCEPT ![r] = next]
                /\ running' = r
           ELSE UNCHANGED << pc, running >>
        /\ UNCHANGED << promise, error >>
     \/ /\ UNCHANGED << fs, events >>
        /\ IF pc[r] = awaitLabel
           THEN Throws(r, stage, next)
           ELSE UNCHANGED << pc, running, promise, error >>
  /\ UNCHANGED << tmpDir, reportFolder, args, extractorConfig, invocations >>

\* Line 160.
CallAddBlankLines(r) ==
  /\ pc[r] = "addBlankLines"
  /\ CallStage(r, "addBlankLines", "awaitAddBlankLines",
               Following("addBlankLines"))

AddBlankLinesSettles(r) ==
  StageSettles(r, "addBlankLines", "awaitAddBlankLines",
               Following("addBlankLines"))

\* Line 162.
CallRemoveUnusedImports(r) ==
  /\ pc[r] = "removeUnusedImports"
  /\ CallStage(r, "removeUnusedImports", "awaitRemoveUnusedImports",
               Following("removeUnusedImports"))

RemoveUnusedImportsSettles(r) ==
  StageSettles(r, "removeUnusedImports", "awaitRemoveUnusedImports",
               Following("removeUnusedImports"))

\* Lines 165-172.
LoadApiExtractorConfig2(r) ==
  /\ pc[r] = "loadApiExtractorConfig2"
  /\ running = r
  /\ loadApiExtractorConfig(r, SecondInvocation(args[r]))
  /\ Goto(r, "invoke2")
  /\ UNCHANGED << fs, reportFolder, args, inflight, invocations, events >>

\* Line 173: the second invocation, which writes the report.
ExtractorInvoke2(r) ==
  /\ pc[r] = "invoke2"
  /\ running = r
  /\ \/ /\ Invoke(r, << >>)
        /\ events' = Done(r, "invoke2")
        /\ Goto(r, "return")
     \/ /\ events' = Begun(r, "invoke2")
        /\ Throws(r, "invoke2", "return")
        /\ UNCHANGED << fs, reportFolder, invocations >>
  /\ UNCHANGED << tmpDir, args, extractorConfig, inflight >>

\* Lines 174-175: generateApi returns and its promise is fulfilled.
Return(r) ==
  /\ pc[r] = "return"
  /\ running = r
  /\ pc' = [pc EXCEPT ![r] = "fulfilled"]
  /\ promise' = [promise EXCEPT ![r] = "fulfilled"]
  /\ running' = "none"
  /\ UNCHANGED << fs, tmpDir, reportFolder, args, extractorConfig, inflight,
                  error, invocations, events >>

Step(r, texts) ==
  \/ Call(r)
  \/ WriteTypescriptConfig(r)
  \/ WritePackageJson(r)
  \/ LoadApiExtractorConfig1(r)
  \/ ExtractorInvoke1(r, texts)
  \/ PruneDts(r)
  \/ CallAddBlankLines(r)
  \/ AddBlankLinesSettles(r)
  \/ CallRemoveUnusedImports(r)
  \/ RemoveUnusedImportsSettles(r)
  \/ LoadApiExtractorConfig2(r)
  \/ ExtractorInvoke2(r)
  \/ Return(r)

\* Two calls of generateApi that interleave at their awaits.
Next == \E r \in Runs : Step(r, SampleRollups)
Spec == Init /\ [][Next]_vars

\* One call of generateApi, over every rollup text within the bound.
NextText == Step("r1", Texts)
SpecText == Init /\ [][NextText]_vars

(***************************************************************************)
(* Properties.                                                             *)
(***************************************************************************)
Stages == {"pruneDts", "addBlankLines", "removeUnusedImports"}
AfterPipeline == {"loadApiExtractorConfig2", "invoke2", "return", "fulfilled"}

\* The rollup text the first invocation of run r emitted.
Rollup(r) == invocations[r][1].rollup
PublicText(r) == fs[args[r].publicDtsPath].text

IsStageStart(e) == e[1] = "start" /\ e[2] \in Stages
\* The post-processing stages run r began, in the order it began them.
StageOrder(r) ==
  LET starts == SelectSeq(events[r], IsStageStart)
  IN  [i \in DOMAIN starts |-> starts[i][2]]

BothEvents(step) == << << "start", step >>, << "end", step >> >>
\* The events of a whole run whose text stages are s1 then s2.
FullTrace(s1, s2) ==
  BothEvents("invoke1") \o BothEvents("pruneDts") \o BothEvents(s1)
    \o BothEvents(s2) \o BothEvents("invoke2")
IsPrefix(s, t) == Len(s) <= Len(t) /\ SubSeq(t, 1, Len(s)) = s

\* C1 as claimed: in every completed run the stages ran in the order pruner,
\* import normalizer, formatter.
C1_PrunerNormalizerFormatter ==
  \A r \in Runs :
    pc[r] = "fulfilled" =>
      StageOrder(r) = << "pruneDts", "removeUnusedImports", "addBlankLines" >>

\* C1 as amended: in every completed run the stages ran in the order pruner,
\* formatter (addBlankLines), import normalizer (removeUnusedImports): the
\* formatter ran on the pruner's output and the import normalizer ran last, on
\* the formatter's output.
C1_PrunerFormatterNormalizer ==
  \A r \in Runs :
    pc[r] = "fulfilled" =>
      /\ StageOrder(r) = << "pruneDts", "addBlankLines", "removeUnusedImports" >>
      /\ PublicText(r) = removeUnusedImports(addBlankLines(pruneDts(Rollup(r))))

C1_Witness ==
  \E r \in Runs :
    /\ pc[r] = "fulfilled"
    /\ Len(StageOrder(r)) = 3
    /\ pruneDts(Rollup(r)) # Rollup(r)
    /\ PublicText(r) # pruneDts(Rollup(r))

\* What is at publicDtsPath before the pipeline of run r writes to it.
PublicBeforePipeline(r) ==
  IF args[r].publicDtsPath = args[r].rollupDtsPath
  THEN File(Rollup(r)) ELSE Absent

\* C2 as claimed: once addBlankLines or removeUnusedImports has failed, the
\* file at publicDtsPath is untouched or the output of the whole pipeline.
C2_NoPartialOutput ==
  \A r \in Runs :
    error[r] \in {"addBlankLines", "removeUnusedImports"} =>
      \/ fs[args[r].publicDtsPath] = PublicBeforePipeline(r)
      \/ fs[args[r].publicDtsPath] =
           File(removeUnusedImports(addBlankLines(pruneDts(Rollup(r)))))

\* C3 as claimed: the report invocation of a run reads the tsconfig.json,
\* package.json and api-extractor.json that the same run wrote.
C3_OwnScratchFiles ==
  \A r \in Runs :
    Len(invocations[r]) >= 2 =>
      /\ invocations[r][2].config.apiReport.reportFileName = args[r].packageName
      /\ invocations[r][2].config.mainEntryPointFilePath = args[r].publicDtsPath
      /\ invocations[r][2].packageJson = args[r].packageName
      /\ invocations[r][2].tsconfig = args[r].packageRoot

\* C4: the steps of a run never overlap and follow the order first
\* invocation, prune, the two text stages, second invocation; the second
\* configuration is not loaded before the three stages have ended; a run
\* that completes has invoked the extraction tool exactly twice.
C4_StrictlySequential ==
  \A r \in Runs :
    /\ \/ IsPrefix(events[r], FullTrace("addBlankLines", "removeUnusedImports"))
       \/ IsPrefix(events[r], FullTrace("removeUnusedImports", "addBlankLines"))
    /\ pc[r] \in AfterPipeline =>
         /\ inflight[r] = {}
         /\ \A s \in Stages :
              \E i \in DOMAIN events[r] : events[r][i] = << "end", s >>
    /\ Len(invocations[r]) <= 2
    /\ pc[r] = "fulfilled" => Len(invocations[r]) = 2 /\ Len(events[r]) = 10

C4_Witness ==
  \E r \in Runs :
    /\ pc[r] = "fulfilled"
    /\ Len(invocations[r]) = 2
    /\ events[r][Len(events[r])] = << "end", "invoke2" >>

\* Every import of t binds only names that a declaration of t references.
ImportsNormalized(t) ==
  \A i \in DOMAIN t :
    IsImport(t[i]) => t[i].binds # {} /\ t[i].binds \subseteq Referenced(t)

\* In t exactly one blank line stands between the leading block of imports
\* and the first statement after it, when there are both.
OneBlankLineAfterImports(t) ==
  LET k == LeadingImports(t)
  IN  (k > 0 /\ \E i \in (k + 1)..Len(t) : IsStatement(t[i])) =>
        /\ ~IsStatement(t[k + 1])
        /\ IsStatement(t[k + 2])

HasImport(t) == \E i \in DOMAIN t : IsImport(t[i])

C6_FailureAborts ==
  \A r \in Runs :
    error[r] \in Stages =>
      /\ pc[r] = "rejected"
      /\ promise[r] = "rejected"
      /\ inflight[r] = {}
      /\ events[r][Len(events[r])] = << "start", error[r] >>
      /\ Cardinality({i \in DOMAIN events[r] :
                        events[r][i] = << "start", error[r] >>}) = 1
      /\ Len(invocations[r]) = 1
      /\ extractorConfig[r].json.mainEntryPointFilePath
           = args[r].typescriptDtsPath

C6_Witness ==
  \E r \in Runs :
    /\ error[r] = "addBlankLines"
    /\ pc[r] = "rejected"
    /\ fs[args[r].publicDtsPath].present

\* C7: the first invocation has the compiler's file as entry point, the
\* rollup enabled and the report disabled; the second has the public file
\* as entry point, the report enabled and the rollup disabled.
C7_InvocationConfig ==
  \A r \in Runs :
    \A i \in DOMAIN invocations[r] :
      LET c == invocations[r][i].config
      IN  /\ i = 1 => /\ c.mainEntryPointFilePath = args[r].typescriptDtsPath
                      /\ c.dtsRollup.enabled
                      /\ ~c.apiReport.enabled
          /\ i = 2 => /\ c.mainEntryPointFilePath = args[r].publicDtsPath
                      /\ c.apiReport.enabled
                      /\ ~c.dtsRollup.enabled
          /\ i <= 2
          /\ c.dtsRollup.enabled # c.apiReport.enabled

C7_Witness ==
  \E r \in Runs :
    /\ Len(invocations[r]) = 2
    /\ invocations[r][2].config.apiReport.enabled

\* The levels of a written configuration: forgotten exports are errors iff
\* the report is enabled, the other three messages are silenced.
MessageLevelsOk(c) ==
  /\ c.messages.aeForgottenExport = "error" <=> c.apiReport.enabled
  /\ c.messages.aeForgottenExport \in {"error", "none"}
  /\ c.messages.aeMissingReleaseTag = "none"
  /\ c.messages.aeUnresolvedLink = "none"
  /\ c.messages.tsdocUndefinedTag = "none"

\* C9: every configuration written to tmpDir and every configuration an
\* invocation ran under reports ae-forgotten-export as an error iff the
\* report is enabled, which is in the second invocation only.
C9_ForgottenExportLevel ==
  /\ tmpDir.apiExtractorJson.mainEntryPointFilePath # NoPath =>
       MessageLevelsOk(tmpDir.apiExtractorJson)
  /\ \A r \in Runs :
       \A i \in DOMAIN invocations[r] :
         /\ MessageLevelsOk(invocations[r][i].config)
         /\ invocations[r][i].config.messages.aeForgottenExport = "error"
              <=> i = 2

C9_Witness ==
  \E r \in Runs :
    /\ Len(invocations[r]) = 2
    /\ invocations[r][1].config.messages.aeForgottenExport = "none"
    /\ invocations[r][2].config.messages.aeForgottenExport = "error"

\* C10: with four distinct paths, after the first invocation the rollup
\* files and the compiler's file stay as that invocation left them, and the
\* second invocation leaves the public file as the last stage wrote it.
C10_RollupFilesUnchanged ==
  \A r \in Runs :
    (PairwiseDistinct(args[r]) /\ Len(invocations[r]) >= 1) =>
      /\ fs[args[r].rollupDtsPath] = File(Rollup(r))
      /\ fs[args[r].untrimmedRollupDtsPath] = File(Rollup(r))
      /\ fs[args[r].typescriptDtsPath] = File(<< >>)
      /\ pc[r] \in {"return", "fulfilled"} =>
           fs[args[r].publicDtsPath] =
             File(removeUnusedImports(addBlankLines(pruneDts(Rollup(r)))))

C10_Witness ==
  \E r \in Runs :
    /\ PairwiseDistinct(args[r])
    /\ pc[r] = "fulfilled"
    /\ fs[args[r].publicDtsPath] # fs[args[r].rollupDtsPath]

\* Statement j of t is a root or is reached from a root along references.
ReachableFromRoot(t, j) ==
  \E n \in 1..Len(t) :
    \E p \in [1..n -> DOMAIN t] :
      /\ t[p[1]].kind = "export"
      /\ p[n] = j
      /\ \A m \in 1..(n - 1) :
           /\ IsStatement(t[p[m + 1]])
           /\ t[p[m + 1]].binds \cap t[p[m]].refs # {}

\* The k-th smallest element of a set of numbers.
KthSmallest(S, k) == CHOOSE x \in S : Cardinality({y \in S : y < x}) = k - 1

====
